---- MODULE Spec2Model ----
(***************************************************************************)
(* A model of the conversation core of the sentiment-aware chatbot:        *)
(* chatbot.py (Message, ConversationState, Chatbot, SmartChatbot) and the  *)
(* local statistics of analytics.py.  The AI client and the sentiment      *)
(* analyzer (ai_client.py, sentiment.py) are collaborators; they are       *)
(* modelled from their documented contract, and every answer they can give *)
(* is a nondeterministic input.                                            *)
(*                                                                         *)
(* Texts are sequences of one-character strings, so that str.strip() is    *)
(* computed.  Optional values (Message.sentiment, the mood shift) are      *)
(* sequences of length 0 (None) or 1.  Message.timestamp is wall-clock     *)
(* time that no operation reads back; it is left out of the records.       *)
(***************************************************************************)
EXTENDS Integers, Sequences, FiniteSets, TLC

VARIABLES
    history,            \* Chatbot.history: sequence of Message
    state,              \* Chatbot.state: ConversationState
    sentiment_history,  \* SentimentAnalyzer's ordered history of results
    system_prompt,      \* Chatbot.system_prompt
    previous_moods,     \* SmartChatbot.previous_moods
    last_call,          \* the last call made on the agent and how it ended
    calls,              \* chat() calls begun since construction or reset()
    turns,              \* chat() calls completed since construction or reset()
    chats,              \* chat() calls begun since construction
    analytics_input,    \* the argument of an analytics function under study
    analytics_output,   \* what the function made of it
    chatbot_instances,  \* web_app.chatbot_instances: session id -> agent (its index in agents)
    agents,             \* the SmartChatbot objects the server constructed, in that order
    cookies,            \* each client's Flask session: its session_id, if any
    requests,           \* the requests being handled, each on its thread
    web_last,           \* the last HTTP response sent
    web_chats           \* /chat and /history requests taken so far

agentvars == <<history, state, sentiment_history, system_prompt, previous_moods,
               last_call, calls, turns, chats>>

analyticsvars == <<analytics_input, analytics_output>>

webvars == <<chatbot_instances, agents, cookies, requests, web_last, web_chats>>

vars == <<agentvars, analyticsvars, webvars>>

----------------------------------------------------------------------------
(* Bounds and program constants *)

\* chat() calls made on one agent during a run
MaxChats == 2

\* self.history[-10:] in _generate_response
ContextWindow == 10

\* chat() calls made on one agent during a run of a long conversation
MaxLongChats == 6

\* self.mood_shift_threshold = 2
MoodShiftThreshold == 2

----------------------------------------------------------------------------
(* Input domains *)

Whitespace == {" "}

\* user inputs handed to chat()
UserMessages == { <<"h", "i">>, <<"n", "o">> }

\* texts the generation collaborator can return
RawReplies == { <<" ", "o", "k", " ">> }

\* every way the generation collaborator call can end
ReplyOutcomes ==
    { [kind |-> "reply", text |-> t] : t \in RawReplies }
        \cup { [kind |-> "raise", text |-> <<>>], [kind |-> "none", text |-> <<>>] }

\* the generation collaborator answering or raising
LongOutcomes ==
    { [kind |-> "reply", text |-> t] : t \in RawReplies }
        \cup { [kind |-> "raise", text |-> <<>>] }

\* the default system prompt of Chatbot.__init__ and the personalities a
\* caller sets
DefaultPrompt == <<"d", "e", "f">>
Personalities == { <<"p", "i", "r", "a", "t", "e">> }

\* results the analyzer can hand back: the three sentiment labels, the safe
\* default on collaborator failure (neutral/medium/0.5), and a payload whose
\* labels are outside the documented vocabulary, passed through unchanged.
\* confidence is in hundredths.
DefaultResult ==
    [sentiment |-> "neutral", emotion |-> "neutral", emotion_intensity |-> "medium",
     confidence |-> 50, reasoning |-> "unavailable"]

SentimentResults ==
    { [sentiment |-> "positive", emotion |-> "happy", emotion_intensity |-> "high",
       confidence |-> 90, reasoning |-> "praise"],
      [sentiment |-> "negative", emotion |-> "sad", emotion_intensity |-> "low",
       confidence |-> 70, reasoning |-> "complaint"],
      [sentiment |-> "negative", emotion |-> "angry", emotion_intensity |-> "high",
       confidence |-> 80, reasoning |-> "complaint"],
      DefaultResult,
      [sentiment |-> "mixed", emotion |-> "wistful", emotion_intensity |-> "extreme",
       confidence |-> 30, reasoning |-> "unclear"] }

----------------------------------------------------------------------------
(* Text helpers *)

RECURSIVE LStrip(_)
LStrip(s) ==
    IF s = <<>> THEN s
    ELSE IF Head(s) \in Whitespace THEN LStrip(Tail(s)) ELSE s

RECURSIVE RStrip(_)
RStrip(s) ==
    IF s = <<>> THEN s
    ELSE IF s[Len(s)] \in Whitespace THEN RStrip(SubSeq(s, 1, Len(s) - 1)) ELSE s

\* str.strip()
Strip(s) == RStrip(LStrip(s))

----------------------------------------------------------------------------
(* Message and ConversationState *)

Message(role, content, sentiment) ==
    [role |-> role, content |-> content, sentiment |-> sentiment]

ConversationState_init ==
    [mood |-> "neutral", engagement_level |-> "normal", topics_discussed |-> <<>>,
     sentiment_trend |-> "stable", last_emotion |-> "neutral"]

Engagement(intensity) ==
    IF intensity = "high" THEN "high"
    ELSE IF intensity = "low" THEN "low"
    ELSE "normal"

\* update() that forgets last_emotion
ConversationState_update_keeps_emotion(st, r) ==
    [st EXCEPT !.mood = r.sentiment,
               !.engagement_level = Engagement(r.emotion_intensity)]

\* update() without the final else branch: a medium intensity leaves the
\* engagement level of the earlier turn in place
ConversationState_update_sticky(st, r) ==
    [st EXCEPT !.mood = r.sentiment,
               !.last_emotion = r.emotion,
               !.engagement_level = IF r.emotion_intensity \in {"high", "low"}
                                    THEN r.emotion_intensity ELSE @]

ConversationState_update(st, r) ==
    [st EXCEPT !.mood = r.sentiment,
               !.last_emotion = r.emotion,
               !.engagement_level = Engagement(r.emotion_intensity)]

ConversationState_to_dict(st) ==
    [mood |-> st.mood, engagement_level |-> st.engagement_level,
     topics_discussed |-> st.topics_discussed,
     sentiment_trend |-> st.sentiment_trend, last_emotion |-> st.last_emotion]

----------------------------------------------------------------------------
(* SentimentAnalyzer, from its contract *)

\* analyze(text): the result is appended to the history before it is returned
SentimentAnalyzer_analyze(sh, r) == Append(sh, r)

SentimentAnalyzer_clear_history(sh) == <<>>

SentimentAnalyzer_get_summary_stats(sh) == [total_messages |-> Len(sh)]

SentimentResult_to_dict(r) ==
    [sentiment |-> r.sentiment, emotion |-> r.emotion,
     emotion_intensity |-> r.emotion_intensity, confidence |-> r.confidence,
     reasoning |-> r.reasoning]

RECURSIVE SentimentAnalyzer_get_history_dicts(_)
SentimentAnalyzer_get_history_dicts(sh) ==
    IF sh = <<>> THEN <<>>
    ELSE <<SentimentResult_to_dict(Head(sh))>> \o SentimentAnalyzer_get_history_dicts(Tail(sh))

----------------------------------------------------------------------------
(* Chatbot *)

add_system_message(h, content) == Append(h, Message("system", content, <<>>))

\* _add_message that does not pass the sentiment on to the Message
add_message_drops_sentiment(h, role, content, sentiment) ==
    Append(h, Message(role, content, <<>>))

add_message(h, role, content, sentiment) == Append(h, Message(role, content, sentiment))

\* a window that is one entry too long: self.history[-11:]
history_for_ai_off_by_one(h) ==
    LET first == IF Len(h) > ContextWindow + 1 THEN Len(h) - ContextWindow ELSE 1
    IN  [i \in 1..(Len(h) - first + 1) |->
            [role |-> h[first + i - 1].role, content |-> h[first + i - 1].content]]

\* self.history[-10:] reduced to {role, content}
history_for_ai(h) ==
    LET first == IF Len(h) > ContextWindow THEN Len(h) - ContextWindow + 1 ELSE 1
    IN  [i \in 1..(Len(h) - first + 1) |->
            [role |-> h[first + i - 1].role, content |-> h[first + i - 1].content]]

sentiment_context(r) ==
    <<"User sentiment: ", r.sentiment, " | Emotion: ", r.emotion, " (",
      r.emotion_intensity, ") | Reason: ", r.reasoning>>

\* generate_reply called with the mood the state held before this turn
generate_reply_args_stale_mood(h, st, msg, r) ==
    [user_message |-> msg, conversation_history |-> history_for_ai(h),
     current_mood |-> state.mood, sentiment_context |-> sentiment_context(r)]

\* the arguments of ai_client.generate_reply
generate_reply_args(h, st, msg, r) ==
    [user_message |-> msg, conversation_history |-> history_for_ai(h),
     current_mood |-> st.mood, sentiment_context |-> sentiment_context(r)]

get_mood_context(st, sh) ==
    <<"Current mood: ", st.mood, " | Emotion: ", st.last_emotion,
      " | Engagement: ", st.engagement_level, " | Messages: ",
      SentimentAnalyzer_get_summary_stats(sh).total_messages>>

CountRole(h, role) == Cardinality({i \in 1..Len(h) : h[i].role = role})

Chatbot_get_statistics(h, st, sh) ==
    [total_messages |-> Len(h) - 1,
     user_messages |-> CountRole(h, "user"),
     assistant_messages |-> CountRole(h, "assistant"),
     sentiment_stats |-> SentimentAnalyzer_get_summary_stats(sh),
     conversation_state |-> ConversationState_to_dict(st)]

Chatbot_get_sentiment_history(sh) == SentimentAnalyzer_get_history_dicts(sh)

\* The generation step of chat(): the collaborator's answer `out` is a text, an
\* exception, or None (on which response.strip() raises AttributeError).
generate_response_raises(out) == out.kind # "reply"

generate_response(out) == Strip(out.text)

\* Chatbot.chat(msg) with the analyzer's result r and the generation
\* collaborator's answer out.  The fields history/state/sentiment_history are
\* the object's fields when the call ends; outcome says how it ended.
Chatbot_chat(h, st, sh, msg, r, out) ==
    LET sh1  == SentimentAnalyzer_analyze(sh, r)
        st1  == ConversationState_update(st, r)
        h1   == add_message(h, "user", msg, <<r>>)
        args == generate_reply_args(h1, st1, msg, r)
    IN  IF generate_response_raises(out)
        THEN [history |-> h1, state |-> st1, sentiment_history |-> sh1,
              outcome |-> "raised", generate_args |-> args, result |-> <<>>]
        ELSE LET response == generate_response(out)
                 h2 == add_message(h1, "assistant", response, <<>>)
             IN  [history |-> h2, state |-> st1, sentiment_history |-> sh1,
                  outcome |-> "returned", generate_args |-> args,
                  result |-> [response |-> response,
                              sentiment |-> SentimentResult_to_dict(r),
                              state |-> ConversationState_to_dict(st1),
                              mood_context |-> get_mood_context(st1, sh1)]]

\* reset() that re-seeds the system message without emptying the history
Chatbot_reset_history_keeps(prompt) == add_system_message(history, prompt)

Chatbot_reset_history(prompt) == add_system_message(<<>>, prompt)

\* reset() that keeps the old ConversationState
Chatbot_reset_state_stale == state

Chatbot_reset_state == ConversationState_init

\* set_personality that appends the new system message
Chatbot_set_personality_appends(h, personality) ==
    add_system_message(h, personality)

\* set_personality that overwrites history[0] whatever its role
Chatbot_set_personality_any_role(h, personality) ==
    IF h # <<>>
    THEN [h EXCEPT ![1] = Message("system", personality, <<>>)]
    ELSE h

\* set_personality: history[0] is replaced in place when it is the system message
Chatbot_set_personality(h, personality) ==
    IF h # <<>> /\ h[1].role = "system"
    THEN [h EXCEPT ![1] = Message("system", personality, <<>>)]
    ELSE h

----------------------------------------------------------------------------
(* SmartChatbot *)

Range(s) == { s[i] : i \in 1..Len(s) }

\* mood_values.get(label, 0)
MoodValue(label) ==
    IF label = "positive" THEN 1
    ELSE IF label = "negative" THEN -1
    ELSE 0

\* _detect_mood_shift with from and to exchanged
detect_mood_shift_swapped(moods, n) ==
    IF Len(moods) < n THEN <<>>
    ELSE LET recent == SubSeq(moods, Len(moods) - n + 1, Len(moods))
         IN  IF Cardinality(Range(recent)) = 1 THEN <<>>
             ELSE IF Len(recent) >= 2
                  THEN LET prev == recent[Len(recent) - 1]
                           curr == recent[Len(recent)]
                       IN  IF MoodValue(curr) > MoodValue(prev)
                           THEN <<[direction |-> "improving", from |-> curr, to |-> prev]>>
                           ELSE IF MoodValue(curr) < MoodValue(prev)
                           THEN <<[direction |-> "declining", from |-> curr, to |-> prev]>>
                           ELSE <<>>
                  ELSE <<>>

\* _detect_mood_shift with the window sliced from the front of the labels
detect_mood_shift_leading(moods, n) ==
    IF Len(moods) < n THEN <<>>
    ELSE LET recent == SubSeq(moods, 1, n)
         IN  IF Cardinality(Range(recent)) = 1 THEN <<>>
             ELSE IF Len(recent) >= 2
                  THEN LET prev == recent[Len(recent) - 1]
                           curr == recent[Len(recent)]
                       IN  IF MoodValue(curr) > MoodValue(prev)
                           THEN <<[direction |-> "improving", from |-> prev, to |-> curr]>>
                           ELSE IF MoodValue(curr) < MoodValue(prev)
                           THEN <<[direction |-> "declining", from |-> prev, to |-> curr]>>
                           ELSE <<>>
                  ELSE <<>>

\* _detect_mood_shift over the labels moods with window n
detect_mood_shift(moods, n) ==
    IF Len(moods) < n THEN <<>>
    ELSE LET recent == SubSeq(moods, Len(moods) - n + 1, Len(moods))
         IN  IF Cardinality(Range(recent)) = 1 THEN <<>>
             ELSE IF Len(recent) >= 2
                  THEN LET prev == recent[Len(recent) - 1]
                           curr == recent[Len(recent)]
                       IN  IF MoodValue(curr) > MoodValue(prev)
                           THEN <<[direction |-> "improving", from |-> prev, to |-> curr]>>
                           ELSE IF MoodValue(curr) < MoodValue(prev)
                           THEN <<[direction |-> "declining", from |-> prev, to |-> curr]>>
                           ELSE <<>>
                  ELSE <<>>

KnownEmotions ==
    {"happy", "excited", "sad", "angry", "confused", "anxious", "neutral",
     "frustrated", "hopeful", "surprised"}

color_map ==
    [e \in KnownEmotions |->
        CASE e = "happy" -> "#4CAF50" [] e = "excited" -> "#FF9800"
          [] e = "sad" -> "#2196F3" [] e = "angry" -> "#F44336"
          [] e = "confused" -> "#9C27B0" [] e = "anxious" -> "#607D8B"
          [] e = "neutral" -> "#9E9E9E" [] e = "frustrated" -> "#E91E63"
          [] e = "hopeful" -> "#00BCD4" [] e = "surprised" -> "#FFEB3B"]

\* the icon table maps each known emotion to its own glyph, named here after it
icon_map == [e \in KnownEmotions |-> <<"icon", e>>]

generate_ui_hints(sentiment) ==
    LET emotion == IF "emotion" \in DOMAIN sentiment THEN sentiment.emotion ELSE "neutral"
        intensity == IF "emotion_intensity" \in DOMAIN sentiment
                     THEN sentiment.emotion_intensity ELSE "medium"
    IN  [suggested_color |-> IF emotion \in KnownEmotions THEN color_map[emotion]
                             ELSE "#9E9E9E",
         emotion_icon |-> IF emotion \in KnownEmotions THEN icon_map[emotion]
                          ELSE icon_map["neutral"],
         intensity_level |-> CASE intensity = "low" -> 1
                               [] intensity = "medium" -> 2
                               [] intensity = "high" -> 3
                               [] OTHER -> 2]

\* the emotion tracked in place of the sentiment label
tracked_mood_emotion(result) == result.sentiment.emotion

\* the label SmartChatbot.chat appends to previous_moods
tracked_mood(result) == result.sentiment.sentiment

\* the bundle of SmartChatbot.chat: the base bundle plus the two added fields
SmartChatbot_bundle(result, moods) ==
    [response |-> result.response, sentiment |-> result.sentiment,
     state |-> result.state, mood_context |-> result.mood_context,
     mood_shift_detected |-> detect_mood_shift(moods, MoodShiftThreshold),
     ui_hints |-> generate_ui_hints(result.sentiment)]

----------------------------------------------------------------------------
(* ConversationAnalytics._calculate_statistics *)

\* item.get(field, default) on a dict
DictGet(item, field, default) ==
    IF field \in DOMAIN item THEN item[field] ELSE default

\* d[k] = 1: a count that is set, not raised
DistInc_overwrites(d, k) ==
    IF \E i \in 1..Len(d) : d[i].key = k
    THEN [i \in 1..Len(d) |-> IF d[i].key = k THEN [key |-> k, count |-> 1] ELSE d[i]]
    ELSE Append(d, [key |-> k, count |-> 1])

\* A distribution is a dict in insertion order: a sequence of [key, count].
\* d[k] = d.get(k, 0) + 1
DistInc(d, k) ==
    IF \E i \in 1..Len(d) : d[i].key = k
    THEN [i \in 1..Len(d) |-> IF d[i].key = k
                              THEN [key |-> k, count |-> d[i].count + 1]
                              ELSE d[i]]
    ELSE Append(d, [key |-> k, count |-> 1])

RECURSIVE Distribution(_, _, _)
Distribution(items, field, n) ==
    IF n = 0 THEN <<>>
    ELSE DistInc(Distribution(items, field, n - 1), DictGet(items[n], field, "neutral"))

RECURSIVE TotalConfidence(_, _)
TotalConfidence(items, n) ==
    IF n = 0 THEN 0
    ELSE TotalConfidence(items, n - 1) + DictGet(items[n], "confidence", 50)

\* a maximum that keeps the last of the keys tied for it
Dominant_last(d) ==
    IF d = <<>> THEN "neutral"
    ELSE LET best == CHOOSE i \in 1..Len(d) :
                        /\ \A j \in 1..Len(d) : d[j].count <= d[i].count
                        /\ \A j \in (i + 1)..Len(d) : d[j].count < d[i].count
         IN  d[best].key

\* max(d, key=d.get): the first key, in iteration order, whose count is maximal
Dominant(d) ==
    IF d = <<>> THEN "neutral"
    ELSE LET best == CHOOSE i \in 1..Len(d) :
                        /\ \A j \in 1..Len(d) : d[j].count <= d[i].count
                        /\ \A j \in 1..(i - 1) : d[j].count < d[i].count
         IN  d[best].key

\* _calculate_statistics without its guard for the empty history
calculate_statistics_unguarded(items) ==
    LET sentiment_dist == Distribution(items, "sentiment", Len(items))
        emotion_dist == Distribution(items, "emotion", Len(items))
    IN  [total_messages |-> Len(items),
         sentiment_distribution |-> sentiment_dist,
         emotion_distribution |-> emotion_dist,
         average_confidence |-> [num |-> TotalConfidence(items, Len(items)),
                                 den |-> Len(items)],
         dominant_sentiment |-> Dominant(sentiment_dist),
         dominant_emotion |-> Dominant(emotion_dist)]

\* average_confidence is kept as the exact fraction total/len, in hundredths
calculate_statistics(items) ==
    IF items = <<>>
    THEN [total_messages |-> 0, sentiment_distribution |-> <<>>,
          emotion_distribution |-> <<>>, average_confidence |-> [num |-> 0, den |-> 1]]
    ELSE LET sentiment_dist == Distribution(items, "sentiment", Len(items))
             emotion_dist == Distribution(items, "emotion", Len(items))
         IN  [total_messages |-> Len(items),
              sentiment_distribution |-> sentiment_dist,
              emotion_distribution |-> emotion_dist,
              average_confidence |-> [num |-> TotalConfidence(items, Len(items)),
                                      den |-> Len(items)],
              dominant_sentiment |-> Dominant(sentiment_dist),
              dominant_emotion |-> Dominant(emotion_dist)]

----------------------------------------------------------------------------
(* ConversationAnalytics.get_full_report and ReportGenerator *)

\* A dict is a function on its keys; a key that is absent is not in DOMAIN.
Restrict(d, keys) == [k \in keys \cap DOMAIN d |-> d[k]]

EmptyDict == Restrict(<<>>, {})

\* what the collaborator's summarize, trend and keyword calls can hand back:
\* the full payload or a partially populated one
FullSummary ==
    [summary |-> "recap", overall_tone |-> "warm", user_mood_journey |-> "rising",
     key_points |-> <<"point one", "point two">>]

SummaryPayloads ==
    { FullSummary, EmptyDict,
      Restrict(FullSummary, {"summary", "overall_tone", "user_mood_journey"}),
      Restrict(FullSummary, {"summary", "key_points"}) }

FullTrend ==
    [trend |-> "improving", direction |-> "positive", mood_shifts |-> <<"sad to happy">>,
     emotional_peaks |-> <<"joy">>, analysis |-> "steady rise", prediction |-> "stays up"]

TrendPayloads ==
    { FullTrend, EmptyDict, Restrict(FullTrend, {"trend", "analysis", "mood_shifts"}) }

FullKeywords ==
    [keywords |-> <<"work", "rest">>, themes |-> <<"balance">>,
     topics_of_interest |-> <<"sleep">>]

KeywordPayloads ==
    { FullKeywords, EmptyDict, Restrict(FullKeywords, {"keywords"}) }

GraphTexts == { "ascii graph" }

ProfileTexts == { "profile text" }

\* analyze_trends: TrendData built with result.get(key, default), then to_dict()
analyze_trends(result) ==
    [trend |-> DictGet(result, "trend", "stable"),
     direction |-> DictGet(result, "direction", "neutral"),
     mood_shifts |-> DictGet(result, "mood_shifts", <<>>),
     emotional_peaks |-> DictGet(result, "emotional_peaks", <<>>),
     analysis |-> DictGet(result, "analysis", "No analysis available."),
     prediction |-> DictGet(result, "prediction", "Unable to predict.")]

\* get_full_report over the sentiment history, with the collaborator's answers
get_full_report(sentiment_dicts, trend, keywords, summary, graph, profile) ==
    [summary |-> summary,
     trends |-> analyze_trends(trend),
     keywords |-> keywords,
     statistics |-> calculate_statistics(sentiment_dicts),
     mood_graph |-> graph,
     emotion_profile |-> profile]

\* str.capitalize() on the labels in use
Capitalize(label) ==
    CASE label = "positive" -> "Positive" [] label = "negative" -> "Negative"
      [] label = "neutral" -> "Neutral" [] label = "mixed" -> "Mixed"
      [] label = "happy" -> "Happy" [] label = "excited" -> "Excited"
      [] label = "sad" -> "Sad" [] label = "angry" -> "Angry"
      [] label = "confused" -> "Confused" [] label = "anxious" -> "Anxious"
      [] label = "frustrated" -> "Frustrated" [] label = "hopeful" -> "Hopeful"
      [] label = "surprised" -> "Surprised" [] label = "wistful" -> "Wistful"
      [] OTHER -> label

\* one line per element of a list, behind a bullet
RECURSIVE BulletLines(_, _)
BulletLines(bullet, items) ==
    IF items = <<>> THEN <<>>
    ELSE <<<<bullet, Head(items)>>>> \o BulletLines(bullet, Tail(items))

\* a list is truthy when it is there and not empty
Truthy(d, key) == key \in DOMAIN d /\ d[key] # <<>>

\* sorted(items, key=lambda x: -x[1]): a stable sort by falling count
RECURSIVE InsertByCount(_, _)
InsertByCount(sorted, e) ==
    IF sorted = <<>> THEN <<e>>
    ELSE IF Head(sorted).count >= e.count
         THEN <<Head(sorted)>> \o InsertByCount(Tail(sorted), e)
         ELSE <<e>> \o sorted

RECURSIVE SortedByCount(_, _)
SortedByCount(d, n) ==
    IF n = 0 THEN <<>> ELSE InsertByCount(SortedByCount(d, n - 1), d[n])

\* the [:5] slice of the emotion listing
TopEmotions == 5

\* the slice taken without sorting
top_emotions_unsorted(d) ==
    SubSeq(d, 1, IF Len(d) < TopEmotions THEN Len(d) ELSE TopEmotions)

top_emotions(d) ==
    LET sorted == SortedByCount(d, Len(d))
    IN  SubSeq(sorted, 1, IF Len(sorted) < TopEmotions THEN Len(sorted) ELSE TopEmotions)

RECURSIVE DistLines(_)
DistLines(d) ==
    IF d = <<>> THEN <<>>
    ELSE <<<<"  ", Capitalize(Head(d).key), ": ", Head(d).count>>>> \o DistLines(Tail(d))

\* format(x, ".1%") of an average kept as num/den hundredths: tenths of a
\* percent, rounded to the nearest
PercentTenths(avg) == (avg.num * 20 + avg.den) \div (2 * avg.den)

\* the number 0 that stats.get('average_confidence', 0) falls back to
ZeroAverage == [num |-> 0, den |-> 1]

Rule(char, width) == <<"rule", char, width>>

SummaryLines(summary) ==
    << <<"CONVERSATION SUMMARY">>, Rule("-", 40),
       <<"Summary: ", DictGet(summary, "summary", "N/A")>>,
       <<"Overall Tone: ", DictGet(summary, "overall_tone", "N/A")>>,
       <<"Mood Journey: ", DictGet(summary, "user_mood_journey", "N/A")>> >>
    \o (IF Truthy(summary, "key_points")
        THEN << <<"\nKey Points:">> >> \o BulletLines("  * ", summary.key_points)
        ELSE <<>>)
    \o << <<"">> >>

TrendLines(trends) ==
    << <<"SENTIMENT TRENDS">>, Rule("-", 40),
       <<"Trend: ", DictGet(trends, "trend", "N/A")>>,
       <<"Direction: ", DictGet(trends, "direction", "N/A")>>,
       <<"Analysis: ", DictGet(trends, "analysis", "N/A")>>,
       <<"Prediction: ", DictGet(trends, "prediction", "N/A")>> >>
    \o (IF Truthy(trends, "mood_shifts")
        THEN << <<"\nMood Shifts:">> >> \o BulletLines("  <-> ", trends.mood_shifts)
        ELSE <<>>)
    \o << <<"">> >>

KeywordLines(keywords) ==
    << <<"KEYWORDS & THEMES">>, Rule("-", 40) >>
    \o (IF Truthy(keywords, "keywords")
        THEN << <<"Keywords: ", keywords.keywords>> >> ELSE <<>>)
    \o (IF Truthy(keywords, "themes")
        THEN << <<"Themes: ", keywords.themes>> >> ELSE <<>>)
    \o (IF Truthy(keywords, "topics_of_interest")
        THEN << <<"Topics of Interest: ", keywords.topics_of_interest>> >> ELSE <<>>)
    \o << <<"">> >>

StatisticsLines(stats) ==
    << <<"STATISTICS">>, Rule("-", 40),
       <<"Total Messages Analyzed: ", DictGet(stats, "total_messages", 0)>>,
       <<"Average Confidence: ",
         PercentTenths(DictGet(stats, "average_confidence", ZeroAverage)), "%">>,
       <<"Dominant Sentiment: ", DictGet(stats, "dominant_sentiment", "N/A")>>,
       <<"Dominant Emotion: ", DictGet(stats, "dominant_emotion", "N/A")>> >>
    \o (IF Truthy(stats, "sentiment_distribution")
        THEN << <<"\nSentiment Distribution:">> >>
                \o DistLines(stats.sentiment_distribution)
        ELSE <<>>)
    \o (IF Truthy(stats, "emotion_distribution")
        THEN << <<"\nEmotion Distribution:">> >>
                \o DistLines(top_emotions(stats.emotion_distribution))
        ELSE <<>>)
    \o << <<"">> >>

\* The formatting half of generate_text_report: the lines made of a report
\* record.  Every lookup is a .get with a default, so no absent key raises.
text_report(report) ==
    [outcome |-> "returned",
     lines |->
        << Rule("=", 60), <<"           CONVERSATION ANALYTICS REPORT">>,
           Rule("=", 60), <<"">> >>
        \o SummaryLines(DictGet(report, "summary", EmptyDict))
        \o TrendLines(DictGet(report, "trends", EmptyDict))
        \o KeywordLines(DictGet(report, "keywords", EmptyDict))
        \o StatisticsLines(DictGet(report, "statistics", EmptyDict))
        \o << <<"MOOD VISUALIZATION">>, Rule("-", 40),
              <<DictGet(report, "mood_graph", "No visualization available.")>>,
              <<"">>,
              <<"EMOTION PROFILE">>, Rule("-", 40),
              <<DictGet(report, "emotion_profile", "No profile available.")>>,
              <<"">>,
              Rule("=", 60), <<"           END OF REPORT">>, Rule("=", 60) >>]

----------------------------------------------------------------------------
(* The agent as a state machine: one SmartChatbot and the calls made on it *)

\* A finished call: its name, how it ended ("returned" or "raised"), what the
\* analyzer returned inside it (chat only), the arguments it handed to the
\* generation collaborator (chat only; the personality for set_personality),
\* and its return value.
Call(op, outcome, analysis, args, result) ==
    [op |-> op, outcome |-> outcome, analysis |-> analysis, args |-> args,
     result |-> result]

\* no analytics function is under study
AnalyticsIdle ==
    /\ analytics_input = <<>>
    /\ analytics_output = <<>>

\* the web application right after start: no agent, no cookie, no request
WebIdle ==
    /\ chatbot_instances = <<>>
    /\ agents = <<>>
    /\ cookies = <<>>
    /\ requests = <<>>
    /\ web_last = <<>>
    /\ web_chats = 0

\* SmartChatbot(): Chatbot.__init__ seeds the system message
AgentFresh ==
    /\ history = add_system_message(<<>>, DefaultPrompt)
    /\ state = ConversationState_init
    /\ sentiment_history = <<>>
    /\ system_prompt = DefaultPrompt
    /\ previous_moods = <<>>
    /\ last_call = Call("init", "returned", <<>>, <<>>, <<>>)
    /\ calls = 0
    /\ turns = 0
    /\ chats = 0

Init ==
    /\ AgentFresh
    /\ AnalyticsIdle
    /\ WebIdle

\* SmartChatbot.chat(msg) with inputs from the given sets, at most bound times.
\* When super().chat() raises, nothing after it runs.
ChatOf(messages, results, outcomes, bound) ==
    /\ chats < bound
    /\ \E msg \in messages, r \in results, out \in outcomes :
          LET base == Chatbot_chat(history, state, sentiment_history, msg, r, out)
          IN  /\ history' = base.history
              /\ state' = base.state
              /\ sentiment_history' = base.sentiment_history
              /\ IF base.outcome = "returned"
                 THEN LET moods == Append(previous_moods, tracked_mood(base.result))
                      IN  /\ previous_moods' = moods
                          /\ last_call' = Call("chat", "returned", <<r>>, base.generate_args,
                                               SmartChatbot_bundle(base.result, moods))
                          /\ turns' = turns + 1
                 ELSE /\ previous_moods' = previous_moods
                      /\ last_call' = Call("chat", "raised", <<r>>, base.generate_args, <<>>)
                      /\ turns' = turns
              /\ calls' = calls + 1
              /\ chats' = chats + 1
              /\ UNCHANGED <<system_prompt, analyticsvars, webvars>>

Chat == ChatOf(UserMessages, SentimentResults, ReplyOutcomes, MaxChats)

\* Chatbot.reset()
Reset ==
    /\ history' = Chatbot_reset_history(system_prompt)
    /\ state' = Chatbot_reset_state
    /\ sentiment_history' = SentimentAnalyzer_clear_history(sentiment_history)
    /\ last_call' = Call("reset", "returned", <<>>, <<>>, <<>>)
    /\ calls' = 0
    /\ turns' = 0
    /\ UNCHANGED <<system_prompt, previous_moods, chats, analyticsvars, webvars>>

\* Chatbot.set_personality(personality)
SetPersonality ==
    \E personality \in Personalities :
        /\ system_prompt' = personality
        /\ history' = Chatbot_set_personality(history, personality)
        /\ last_call' = Call("set_personality", "returned", <<>>, personality, <<>>)
        /\ UNCHANGED <<state, sentiment_history, previous_moods, calls, turns, chats,
                       analyticsvars, webvars>>

Next == Chat \/ Reset \/ SetPersonality

Spec == Init /\ [][Next]_vars

----------------------------------------------------------------------------
(* The read-only calls.  Each is an operator from the agent (a record of its *)
(* fields) to the agent as the call leaves it, the arguments it hands to a   *)
(* collaborator, and its return value.                                       *)

Self ==
    [history |-> history, state |-> state, sentiment_history |-> sentiment_history,
     system_prompt |-> system_prompt, previous_moods |-> previous_moods]

\* Message.to_dict (without the timestamp)
Message_to_dict(m) ==
    [role |-> m.role, content |-> m.content,
     sentiment |-> IF m.sentiment = <<>> THEN <<>>
                   ELSE <<SentimentResult_to_dict(m.sentiment[1])>>]

\* [{role, content} for msg in history if msg.role != SYSTEM]
RECURSIVE WithoutSystem(_)
WithoutSystem(h) ==
    IF h = <<>> THEN <<>>
    ELSE (IF Head(h).role = "system" THEN <<>>
          ELSE <<[role |-> Head(h).role, content |-> Head(h).content]>>)
         \o WithoutSystem(Tail(h))

RECURSIVE UserContents(_)
UserContents(h) ==
    IF h = <<>> THEN <<>>
    ELSE (IF Head(h).role = "user" THEN <<Head(h).content>> ELSE <<>>)
         \o UserContents(Tail(h))

Chatbot_get_history(self) ==
    [self |-> self, args |-> <<>>,
     result |-> [i \in 1..Len(self.history) |-> Message_to_dict(self.history[i])]]

Chatbot_get_user_messages(self) ==
    [self |-> self, args |-> <<>>, result |-> UserContents(self.history)]

Chatbot_get_statistics_call(self) ==
    [self |-> self, args |-> <<>>,
     result |-> Chatbot_get_statistics(self.history, self.state, self.sentiment_history)]

Chatbot_get_sentiment_history_call(self) ==
    [self |-> self, args |-> <<>>,
     result |-> Chatbot_get_sentiment_history(self.sentiment_history)]

\* a summary that drops the system message from self.history itself
Chatbot_get_conversation_summary_in_place(self, payload) ==
    [self |-> [self EXCEPT !.history = SelectSeq(self.history,
                                                  LAMBDA m : m.role # "system")],
     args |-> WithoutSystem(self.history), result |-> payload]

\* get_conversation_summary, the collaborator answering payload
Chatbot_get_conversation_summary(self, payload) ==
    [self |-> self, args |-> WithoutSystem(self.history), result |-> payload]

\* get_keywords, the collaborator answering payload
Chatbot_get_keywords(self, payload) ==
    [self |-> self, args |-> WithoutSystem(self.history), result |-> payload]

\* /trends: analytics.analyze_trends(chatbot.get_sentiment_history())
Analytics_analyze_trends(self, payload) ==
    [self |-> self, args |-> Chatbot_get_sentiment_history(self.sentiment_history),
     result |-> analyze_trends(payload)]

\* /report: generate_json_report(chatbot.get_history(), chatbot.get_sentiment_history())
Report_generate_json_report(self, trend, keywords, summary, graph, profile) ==
    [self |-> self, args |-> Chatbot_get_history(self).result,
     result |-> get_full_report(Chatbot_get_sentiment_history(self.sentiment_history),
                                trend, keywords, summary, graph, profile)]

\* generate_text_report(chatbot.get_history(), chatbot.get_sentiment_history())
Report_generate_text_report(self, trend, keywords, summary, graph, profile) ==
    [self |-> self, args |-> Chatbot_get_history(self).result,
     result |-> text_report(
                   get_full_report(Chatbot_get_sentiment_history(self.sentiment_history),
                                   trend, keywords, summary, graph, profile))]

\* the agent after a read-only call, and the record of the call
ReadCall(op, call) ==
    /\ history' = call.self.history
    /\ state' = call.self.state
    /\ sentiment_history' = call.self.sentiment_history
    /\ system_prompt' = call.self.system_prompt
    /\ previous_moods' = call.self.previous_moods
    /\ last_call' = Call(op, "returned", <<>>, call.args, call.result)
    /\ UNCHANGED <<calls, turns, chats, analyticsvars, webvars>>

GetHistory == ReadCall("get_history", Chatbot_get_history(Self))

GetUserMessages == ReadCall("get_user_messages", Chatbot_get_user_messages(Self))

GetStatistics == ReadCall("get_statistics", Chatbot_get_statistics_call(Self))

GetSentimentHistory ==
    ReadCall("get_sentiment_history", Chatbot_get_sentiment_history_call(Self))

GetConversationSummary ==
    \E payload \in SummaryPayloads :
        ReadCall("get_conversation_summary", Chatbot_get_conversation_summary(Self, payload))

GetKeywords ==
    \E payload \in KeywordPayloads :
        ReadCall("get_keywords", Chatbot_get_keywords(Self, payload))

AnalyzeTrends ==
    \E payload \in TrendPayloads :
        ReadCall("analyze_trends", Analytics_analyze_trends(Self, payload))

\* the collaborator's answers to one report request: all full, all empty, or
\* partial ones
ReportAnswers ==
    { [trend |-> FullTrend, keywords |-> FullKeywords, summary |-> FullSummary],
      [trend |-> EmptyDict, keywords |-> EmptyDict, summary |-> EmptyDict],
      [trend |-> Restrict(FullTrend, {"trend", "analysis", "mood_shifts"}),
       keywords |-> Restrict(FullKeywords, {"keywords"}),
       summary |-> Restrict(FullSummary, {"summary", "key_points"})] }

JsonReport ==
    \E a \in ReportAnswers, graph \in GraphTexts, profile \in ProfileTexts :
        ReadCall("generate_json_report",
                 Report_generate_json_report(Self, a.trend, a.keywords, a.summary,
                                             graph, profile))

TextReport ==
    \E a \in ReportAnswers, graph \in GraphTexts, profile \in ProfileTexts :
        ReadCall("generate_text_report",
                 Report_generate_text_report(Self, a.trend, a.keywords, a.summary,
                                             graph, profile))

ReadOps ==
    {"get_history", "get_user_messages", "get_statistics", "get_sentiment_history",
     "get_conversation_summary", "get_keywords", "analyze_trends",
     "generate_json_report", "generate_text_report"}

\* chat() calls made on the agent in a run that mixes reads and writes
MaxReadChats == 2

ReadChat ==
    ChatOf({<<"h", "i">>},
           {r \in SentimentResults : r.emotion \in {"happy", "sad"}},
           LongOutcomes, MaxReadChats)

NextRead ==
    \/ ReadChat \/ Reset \/ SetPersonality
    \/ GetHistory \/ GetUserMessages \/ GetStatistics \/ GetSentimentHistory
    \/ GetConversationSummary \/ GetKeywords \/ AnalyzeTrends
    \/ JsonReport \/ TextReport

SpecRead == Init /\ [][NextRead]_vars

----------------------------------------------------------------------------
(* _calculate_statistics as a function of its argument: the argument is any *)
(* sentiment history of bounded length, some entries lacking fields         *)

\* entries of a sentiment history handed to _calculate_statistics
MaxItems == 3

StatItems ==
    { SentimentResult_to_dict(r) :
        r \in {x \in SentimentResults : x.emotion \in {"happy", "sad", "neutral"}} }
        \cup { [emotion |-> "happy", confidence |-> 80], [sentiment |-> "negative"] }

RECURSIVE SeqsUpTo(_, _)
SeqsUpTo(S, n) ==
    IF n = 0 THEN {<<>>}
    ELSE LET shorter == SeqsUpTo(S, n - 1)
         IN  shorter \cup { Append(q, x) : q \in {z \in shorter : Len(z) = n - 1}, x \in S }

InitStats ==
    /\ AgentFresh
    /\ WebIdle
    /\ analytics_input \in SeqsUpTo(StatItems, MaxItems)
    /\ analytics_output = <<>>

CalculateStatistics ==
    /\ analytics_output = <<>>
    /\ analytics_output' = <<calculate_statistics(analytics_input)>>
    /\ UNCHANGED <<analytics_input, agentvars, webvars>>

NextStats == CalculateStatistics

SpecStats == InitStats /\ [][NextStats]_vars

----------------------------------------------------------------------------
(* _detect_mood_shift as a function of the recorded labels and the window *)
(* mood_shift_threshold, an attribute a caller can configure              *)

\* labels recorded in previous_moods and window sizes under study
MaxMoods == 4

MaxWindow == 3

\* the three labels with an ordinal, and one unknown to mood_values
MoodLabels == {"positive", "neutral", "negative", "mixed"}

InitShift ==
    /\ AgentFresh
    /\ WebIdle
    /\ analytics_input \in
          { [moods |-> m, n |-> n] :
               m \in SeqsUpTo(MoodLabels, MaxMoods), n \in MoodShiftThreshold..MaxWindow }
    /\ analytics_output = <<>>

DetectMoodShift ==
    /\ analytics_output = <<>>
    /\ analytics_output' = <<detect_mood_shift(analytics_input.moods, analytics_input.n)>>
    /\ UNCHANGED <<analytics_input, agentvars, webvars>>

NextShift == DetectMoodShift

SpecShift == InitShift /\ [][NextShift]_vars

----------------------------------------------------------------------------
(* generate_text_report as a function of the report record it formats: the *)
(* records get_full_report builds, the collaborator's answers full, partial *)
(* or empty                                                                 *)

\* the sentiment histories the statistics of a report are computed over
ReportHistories ==
    { <<>>,
      << SentimentResult_to_dict(CHOOSE r \in SentimentResults : r.emotion = "happy") >>,
      << SentimentResult_to_dict(CHOOSE r \in SentimentResults : r.emotion = "happy"),
         SentimentResult_to_dict(CHOOSE r \in SentimentResults : r.emotion = "sad") >> }

ReportRecords ==
    { get_full_report(h, t, k, s, g, p) :
        h \in ReportHistories, t \in TrendPayloads, k \in KeywordPayloads,
        s \in SummaryPayloads, g \in GraphTexts, p \in ProfileTexts }

InitReport ==
    /\ AgentFresh
    /\ WebIdle
    /\ analytics_input \in ReportRecords
    /\ analytics_output = <<>>

GenerateTextReport ==
    /\ analytics_output = <<>>
    /\ analytics_output' = <<text_report(analytics_input)>>
    /\ UNCHANGED <<analytics_input, agentvars, webvars>>

NextReport == GenerateTextReport

SpecReport == InitReport /\ [][NextReport]_vars

----------------------------------------------------------------------------
(* The Emotion Distribution section of the text report, over sentiment   *)
(* histories that name up to MaxEmotions emotions, each up to MaxCount   *)
(* times                                                                 *)

MaxEmotions == 6

MaxCount == 2

\* the emotions of a history, in the order of their first appearance
EmotionOrder ==
    <<"happy", "excited", "sad", "angry", "confused", "anxious", "neutral",
      "frustrated", "hopeful", "surprised">>

EmotionItem(emotion) ==
    [sentiment |-> "neutral", emotion |-> emotion, emotion_intensity |-> "medium",
     confidence |-> 50, reasoning |-> "unavailable"]

RECURSIVE Repeat(_, _)
Repeat(x, n) == IF n = 0 THEN <<>> ELSE <<x>> \o Repeat(x, n - 1)

\* every emotion once, in order, then what is left of each count
RECURSIVE RestOfCounts(_, _)
RestOfCounts(counts, i) ==
    IF i = 0 THEN <<>>
    ELSE RestOfCounts(counts, i - 1)
            \o Repeat(EmotionItem(EmotionOrder[i]), counts[i] - 1)

EmotionHistory(counts) ==
    [i \in 1..Len(counts) |-> EmotionItem(EmotionOrder[i])]
        \o RestOfCounts(counts, Len(counts))

InitEmotions ==
    /\ AgentFresh
    /\ WebIdle
    /\ \E k \in 0..MaxEmotions :
          analytics_input \in [1..k -> 1..MaxCount]
    /\ analytics_output = <<>>

\* generate_text_report over the history, the collaborator answering in full
EmotionReport ==
    /\ analytics_output = <<>>
    /\ \E g \in GraphTexts, p \in ProfileTexts :
          analytics_output' =
             <<text_report(get_full_report(EmotionHistory(analytics_input), FullTrend,
                                           FullKeywords, FullSummary, g, p))>>
    /\ UNCHANGED <<analytics_input, agentvars, webvars>>

NextEmotions == EmotionReport

SpecEmotions == InitEmotions /\ [][NextEmotions]_vars

----------------------------------------------------------------------------
(* web_app: the session registry and the routes that create, drive and     *)
(* reset agents.  The server handles each request on a thread of its own   *)
(* and takes no lock, so a request is a run of steps: up to the store of   *)
(* a new agent when the session has none, up to the call of the generation *)
(* collaborator, and from its answer to the response.                      *)

Clients == {"a", "b"}

\* secrets.token_hex(8) as called for client c: two calls never return the
\* same value, and none returns the word default
token_hex(c) == <<"token", c>>

\* request.json of a /chat request: a dict, or None for a null body
WebBodies ==
    { <<[message |-> <<"h", "i">>]>>, <<[message |-> <<" ">>]>>,
      <<[message |-> <<>>]>>, <<EmptyDict>>, <<>> }

\* what the analyzer answers inside a web turn: one result, the sessions
\* and the interleaving of requests being what varies here
WebResults == { r \in SentimentResults : r.emotion = "happy" }

\* /chat and /history requests the server takes in one run
MaxWebChats == 2

\* session.get('session_id', 'default')
session_id_of(cookie) == IF cookie = <<>> THEN <<"default">> ELSE cookie[1]

\* SmartChatbot()
SmartChatbot_init ==
    [history |-> add_system_message(<<>>, DefaultPrompt),
     state |-> ConversationState_init,
     sentiment_history |-> <<>>,
     system_prompt |-> DefaultPrompt,
     previous_moods |-> <<>>]

\* get_chatbot: the test `session_id not in chatbot_instances`
get_chatbot_missing(instances, session_id) == session_id \notin DOMAIN instances

\* get_chatbot: the assignment chatbot_instances[session_id] = SmartChatbot(),
\* made by a thread that found the id missing, whatever the entry holds by then
get_chatbot_store(instances, session_id, instance) ==
    [k \in DOMAIN instances \cup {session_id} |->
        IF k = session_id THEN instance ELSE instances[k]]

\* the message taken as it was sent
web_message_unstripped(data) == DictGet(data, "message", <<>>)

\* data.get('message', '').strip()
web_message(data) == Strip(DictGet(data, "message", <<>>))

\* chat() up to the call of ai_client.generate_reply
chat_begin(agent, msg, r) ==
    [agent EXCEPT !.sentiment_history = SentimentAnalyzer_analyze(@, r),
                  !.state = ConversationState_update(@, r),
                  !.history = add_message(@, "user", msg, <<r>>)]

\* chat() from the answer of generate_reply on, and SmartChatbot.chat's tail
chat_finish(agent, response, r) ==
    [agent EXCEPT !.history = add_message(@, "assistant", response, <<>>),
                  !.previous_moods = Append(@, SentimentResult_to_dict(r).sentiment)]

\* the JSON body of a successful /chat response
chat_response(agent, response, r) ==
    [response |-> response,
     sentiment |-> SentimentResult_to_dict(r),
     mood_shift |-> detect_mood_shift(agent.previous_moods, MoodShiftThreshold),
     ui_hints |-> generate_ui_hints(SentimentResult_to_dict(r)),
     state |-> ConversationState_to_dict(agent.state)]

\* Chatbot.reset() on a registered agent
agent_reset(agent) ==
    [agent EXCEPT !.history = Chatbot_reset_history(agent.system_prompt),
                  !.state = Chatbot_reset_state,
                  !.sentiment_history = SentimentAnalyzer_clear_history(@)]

\* the last thing the server did: for whom, on which route, the request body
\* and the status (0 while the request waits for the collaborator) and body
\* of the response
Response(client, route, request, status, body) ==
    [client |-> client, route |-> route, request |-> request, status |-> status,
     body |-> body]

\* a request being handled: pc is "create" while its thread, having found
\* the session id missing, constructs the SmartChatbot, and "generate" while
\* it waits for the generation collaborator
Request(client, route, session_id, body, pc, instance, analysis) ==
    [client |-> client, route |-> route, session_id |-> session_id, body |-> body,
     pc |-> pc, instance |-> instance, analysis |-> analysis]

Remove(s, i) == SubSeq(s, 1, i - 1) \o SubSeq(s, i + 1, Len(s))

InitWeb ==
    /\ AgentFresh
    /\ AnalyticsIdle
    /\ chatbot_instances = EmptyDict
    /\ agents = <<>>
    /\ cookies = [c \in Clients |-> <<>>]
    /\ requests = <<>>
    /\ web_last = Response("none", "none", <<>>, 0, <<>>)
    /\ web_chats = 0

\* GET /
Index(c) ==
    /\ IF cookies[c] = <<>>
       THEN cookies' = [cookies EXCEPT ![c] = <<token_hex(c)>>]
       ELSE cookies' = cookies
    /\ web_last' = Response(c, "/", <<>>, 200, <<>>)
    /\ UNCHANGED <<chatbot_instances, agents, requests, web_chats, agentvars,
                   analyticsvars>>

\* POST /chat, until the response, the construction of the agent or the call
\* of the generation collaborator
ChatBegin(c) ==
    /\ web_chats < MaxWebChats
    /\ web_chats' = web_chats + 1
    /\ \E body \in WebBodies :
         IF body = <<>>
         THEN /\ web_last' = Response(c, "/chat", body, 500, <<>>)
              /\ UNCHANGED <<chatbot_instances, agents, requests>>
         ELSE LET message == web_message(body[1])
                  session_id == session_id_of(cookies[c])
              IN  IF message = <<>>
                  THEN /\ web_last' = Response(c, "/chat", body, 400, <<>>)
                       /\ UNCHANGED <<chatbot_instances, agents, requests>>
                  ELSE IF get_chatbot_missing(chatbot_instances, session_id)
                  THEN /\ requests' = Append(requests,
                             Request(c, "/chat", session_id, body, "create", 0, <<>>))
                       /\ web_last' = Response(c, "/chat", body, 0, <<>>)
                       /\ UNCHANGED <<chatbot_instances, agents>>
                  ELSE \E r \in WebResults :
                         LET instance == chatbot_instances[session_id]
                         IN  /\ agents' = [agents EXCEPT ![instance] =
                                              chat_begin(@, message, r)]
                             /\ requests' = Append(requests,
                                   Request(c, "/chat", session_id, body, "generate",
                                           instance, <<r>>))
                             /\ web_last' = Response(c, "/chat", body, 0, <<>>)
                             /\ UNCHANGED chatbot_instances
    /\ UNCHANGED <<cookies, agentvars, analyticsvars>>

\* get_chatbot of a thread that found the id missing: the new agent is stored
\* under the id and the handler goes on with it
ChatbotCreate(i) ==
    /\ i \in 1..Len(requests)
    /\ requests[i].pc = "create"
    /\ LET req == requests[i]
           instance == Len(agents) + 1
       IN  /\ chatbot_instances' =
                 get_chatbot_store(chatbot_instances, req.session_id, instance)
           /\ IF req.route = "/chat"
              THEN \E r \in WebResults :
                     /\ agents' = Append(agents,
                           chat_begin(SmartChatbot_init, web_message(req.body[1]), r))
                     /\ requests' = [requests EXCEPT ![i] =
                           Request(req.client, "/chat", req.session_id, req.body,
                                   "generate", instance, <<r>>)]
                     /\ web_last' = Response(req.client, "/chat", req.body, 0, <<>>)
              ELSE /\ agents' = Append(agents, SmartChatbot_init)
                   /\ requests' = Remove(requests, i)
                   /\ web_last' = Response(req.client, "/history", <<>>, 200,
                                           Chatbot_get_history(SmartChatbot_init).result)
    /\ UNCHANGED <<cookies, web_chats, agentvars, analyticsvars>>

\* POST /chat, from the collaborator's answer to the response
ChatFinish(i) ==
    /\ i \in 1..Len(requests)
    /\ requests[i].pc = "generate"
    /\ \E out \in LongOutcomes :
         LET req == requests[i]
             agent == agents[req.instance]
         IN  IF generate_response_raises(out)
             THEN /\ web_last' = Response(req.client, "/chat", req.body, 500, <<>>)
                  /\ UNCHANGED agents
             ELSE LET after == chat_finish(agent, generate_response(out), req.analysis[1])
                  IN  /\ agents' = [agents EXCEPT ![req.instance] = after]
                      /\ web_last' = Response(req.client, "/chat", req.body, 200,
                            chat_response(after, generate_response(out), req.analysis[1]))
    /\ requests' = Remove(requests, i)
    /\ UNCHANGED <<chatbot_instances, cookies, web_chats, agentvars, analyticsvars>>

\* POST /reset
WebReset(c) ==
    /\ LET session_id == session_id_of(cookies[c])
       IN  IF session_id \in DOMAIN chatbot_instances
           THEN agents' = [agents EXCEPT ![chatbot_instances[session_id]] =
                              agent_reset(@)]
           ELSE UNCHANGED agents
    /\ web_last' = Response(c, "/reset", <<>>, 200, <<>>)
    /\ UNCHANGED <<chatbot_instances, cookies, requests, web_chats, agentvars,
                   analyticsvars>>

\* GET /history, until the response or the construction of the agent
WebHistory(c) ==
    /\ web_chats < MaxWebChats
    /\ web_chats' = web_chats + 1
    /\ LET session_id == session_id_of(cookies[c])
       IN  IF get_chatbot_missing(chatbot_instances, session_id)
           THEN /\ requests' = Append(requests,
                      Request(c, "/history", session_id, <<>>, "create", 0, <<>>))
                /\ web_last' = Response(c, "/history", <<>>, 0, <<>>)
           ELSE /\ web_last' = Response(c, "/history", <<>>, 200,
                      Chatbot_get_history(agents[chatbot_instances[session_id]]).result)
                /\ UNCHANGED requests
    /\ UNCHANGED <<chatbot_instances, agents, cookies, agentvars, analyticsvars>>

NextWeb ==
    \/ \E c \in Clients : Index(c)
    \/ \E c \in Clients : ChatBegin(c)
    \/ \E i \in 1..MaxWebChats : ChatbotCreate(i)
    \/ \E i \in 1..MaxWebChats : ChatFinish(i)
    \/ \E c \in Clients : WebReset(c)
    \/ \E c \in Clients : WebHistory(c)

SpecWeb == InitWeb /\ [][NextWeb]_vars

----------------------------------------------------------------------------
(* Long conversations: the same agent, with one analyzer result and with *)
(* generation either answering or raising, so that the history outgrows  *)
(* the context window                                                    *)

LongChat == ChatOf(UserMessages, {DefaultResult}, LongOutcomes, MaxLongChats)

NextLong == LongChat \/ Reset \/ SetPersonality

SpecLong == Init /\ [][NextLong]_vars

----------------------------------------------------------------------------
(* Properties *)

ChatReturned == last_call.op = "chat" /\ last_call.outcome = "returned"

ChatRaised == last_call.op = "chat" /\ last_call.outcome = "raised"

\* C1: the history holds the system message and two messages per completed
\* turn: len(history) = 1 + 2 * (turns completed since construction or reset).
C1_HistoryLength == Len(history) = 1 + 2 * turns

\* C2: no turn is partially persisted: a chat() that fails in reply generation
\* leaves history, sentiment history and ConversationState as they were before
\* the call.
C2_NoPartialTurn ==
    [][ (last_call'.op = "chat" /\ last_call'.outcome = "raised")
            => /\ history' = history
               /\ sentiment_history' = sentiment_history
               /\ state' = state ]_vars

\* C3: ConversationState reflects the most recently processed sentiment result:
\* mood and last_emotion are those of the last entry of the sentiment history,
\* and with an empty sentiment history the state holds the construction
\* defaults neutral / neutral / normal.
C3_StateReflectsLatest ==
    IF sentiment_history = <<>>
    THEN /\ state.mood = "neutral"
         /\ state.last_emotion = "neutral"
         /\ state.engagement_level = "normal"
    ELSE LET last == sentiment_history[Len(sentiment_history)]
         IN  /\ state.mood = last.sentiment
             /\ state.last_emotion = last.emotion

C3_Witness ==
    /\ Len(sentiment_history) = 2
    /\ sentiment_history[1].sentiment = "positive"
    /\ sentiment_history[2].sentiment = "negative"
    /\ state.mood = "negative"
    /\ state.last_emotion = "sad"

\* C4: after update(result) the engagement level is decided by
\* result.emotion_intensity alone, whatever the earlier updates were:
\* high -> high, low -> low, anything else -> normal.
C4_EngagementTable ==
    last_call.op = "chat" =>
        LET intensity == last_call.analysis[1].emotion_intensity
        IN  /\ intensity = "high" => state.engagement_level = "high"
            /\ intensity = "low" => state.engagement_level = "low"
            /\ intensity \notin {"high", "low"} => state.engagement_level = "normal"

\* a medium-intensity update right after a high-intensity one
C4_Witness ==
    /\ last_call.op = "chat"
    /\ Len(sentiment_history) = 2
    /\ sentiment_history[1].emotion_intensity = "high"
    /\ last_call.analysis[1].emotion_intensity = "medium"
    /\ state.engagement_level = "normal"

C5_Ordinal(label) ==
    CASE label = "positive" -> 1
      [] label = "negative" -> -1
      [] OTHER -> 0

\* C5: with window 2, a completed turn reports a mood shift exactly when the
\* ordinal of the last recorded label differs from that of the one before it:
\* improving when it rose, declining when it fell, with from/to the two labels;
\* no shift with fewer than two labels recorded.  The last recorded label is
\* the sentiment of the turn just completed.
C5_MoodShift ==
    ChatReturned =>
        LET n == Len(previous_moods)
            shift == last_call.result.mood_shift_detected
        IN  /\ n >= 1
            /\ previous_moods[n] = last_call.analysis[1].sentiment
            /\ n < 2 => shift = <<>>
            /\ n >= 2 =>
                 LET from == previous_moods[n - 1]
                     to == previous_moods[n]
                 IN  /\ C5_Ordinal(to) = C5_Ordinal(from) => shift = <<>>
                     /\ C5_Ordinal(to) > C5_Ordinal(from) =>
                          shift = <<[direction |-> "improving", from |-> from, to |-> to]>>
                     /\ C5_Ordinal(to) < C5_Ordinal(from) =>
                          shift = <<[direction |-> "declining", from |-> from, to |-> to]>>

\* [negative, positive] reports improving from negative to positive
C5_Witness ==
    /\ ChatReturned
    /\ previous_moods = <<"negative", "positive">>
    /\ last_call.result.mood_shift_detected =
          <<[direction |-> "improving", from |-> "negative", to |-> "positive"]>>

\* what get_statistics() returns on a freshly constructed agent
C6_FreshStatistics ==
    [total_messages |-> 0, user_messages |-> 0, assistant_messages |-> 0,
     sentiment_stats |-> [total_messages |-> 0],
     conversation_state |->
        [mood |-> "neutral", engagement_level |-> "normal", topics_discussed |-> <<>>,
         sentiment_trend |-> "stable", last_emotion |-> "neutral"]]

\* C6: with no chat() since construction or since the last reset(),
\* get_statistics(), get_sentiment_history() and the local statistics over the
\* sentiment history return what they return on a fresh agent, and the history
\* is the single system message.
C6_ResetIsFresh ==
    calls = 0 =>
        /\ Chatbot_get_statistics(history, state, sentiment_history) = C6_FreshStatistics
        /\ Chatbot_get_sentiment_history(sentiment_history) = <<>>
        /\ calculate_statistics(Chatbot_get_sentiment_history(sentiment_history))
              = [total_messages |-> 0, sentiment_distribution |-> <<>>,
                 emotion_distribution |-> <<>>,
                 average_confidence |-> [num |-> 0, den |-> 1]]
        /\ Len(history) = 1
        /\ history[1].role = "system"

\* a reset() made after turns were processed
C6_Witness ==
    /\ last_call.op = "reset"
    /\ calls = 0
    /\ previous_moods # <<>>
    /\ chats = MaxChats

\* C7: the history is never empty, its first entry is the system message and
\* the only one, and that entry's content is the current system prompt.
C7_SystemMessageFirst ==
    /\ history # <<>>
    /\ history[1].role = "system"
    /\ \A i \in 2..Len(history) : history[i].role # "system"
    /\ history[1].content = system_prompt

\* a personality set in the middle of a conversation
C7_Witness ==
    /\ last_call.op = "set_personality"
    /\ system_prompt # DefaultPrompt
    /\ Len(history) > 2
    /\ history[1].content = system_prompt

\* the number of user messages among the first i entries of the history
C8_UserRank(i) == Cardinality({j \in 1..i : history[j].role = "user"})

\* C8: assistant and system messages carry no sentiment, every user message
\* carries exactly one, and the k-th user message carries the k-th entry of
\* the sentiment history.
C8_SentimentAttachment ==
    \A i \in 1..Len(history) :
        IF history[i].role = "user"
        THEN /\ Len(history[i].sentiment) = 1
             /\ C8_UserRank(i) <= Len(sentiment_history)
             /\ history[i].sentiment[1] = sentiment_history[C8_UserRank(i)]
        ELSE history[i].sentiment = <<>>

\* two completed turns with different sentiments
C8_Witness ==
    /\ Len(history) = 5
    /\ history[2].role = "user" /\ history[4].role = "user"
    /\ history[3].role = "assistant" /\ history[5].role = "assistant"
    /\ history[2].sentiment # history[4].sentiment
    /\ Len(sentiment_history) = 2

\* C9: the sentiment history has one entry per user message; every chat()
\* appends exactly one entry (the result it analyzed) and keeps the earlier
\* entries in place; no other call changes it, except reset(), which empties
\* it.
C9_AppendOnly ==
    /\ [](Len(sentiment_history) = CountRole(history, "user"))
    /\ [][ /\ last_call'.op = "chat" =>
                sentiment_history' = Append(sentiment_history, last_call'.analysis[1])
           /\ last_call'.op = "reset" => sentiment_history' = <<>>
           /\ last_call'.op \notin {"chat", "reset"} =>
                sentiment_history' = sentiment_history ]_vars

\* a second entry appended behind a first, different one
C9_Witness ==
    /\ last_call.op = "chat"
    /\ Len(sentiment_history) = 2
    /\ sentiment_history[1] # sentiment_history[2]
    /\ sentiment_history[2] = last_call.analysis[1]

\* C10: every chat() ends by returning a bundle with the fields response,
\* sentiment, state and mood_context, whatever the two collaborator calls did.
C10_AlwaysBundle ==
    last_call.op = "chat" =>
        /\ last_call.outcome = "returned"
        /\ {"response", "sentiment", "state", "mood_context"} \subseteq DOMAIN last_call.result

\* C16: the first completed turn after reset() (or construction) reports no
\* mood shift, whatever was recorded before the reset.
C16_NoShiftAfterReset ==
    (ChatReturned /\ calls = 1) => last_call.result.mood_shift_detected = <<>>

\* C17: chat() is the sequential pipeline analyze, update, append user message,
\* generate, append reply: the mood handed to the generation collaborator is
\* the label of the message being answered, the user message (with the
\* analyzed result attached) is the last history entry when the reply is
\* requested, and the reply is appended only after it.
C17_Pipeline ==
    last_call.op = "chat" =>
        LET a == last_call.args
            r == last_call.analysis[1]
            ctx == a.conversation_history
            n == Len(history)
            \* the position of this call's user message
            u == IF last_call.outcome = "returned" THEN n - 1 ELSE n
        IN  /\ a.current_mood = r.sentiment
            /\ state.mood = r.sentiment
            /\ sentiment_history[Len(sentiment_history)] = r
            /\ u >= 2
            /\ history[u] = [role |-> "user", content |-> a.user_message,
                             sentiment |-> <<r>>]
            /\ ctx # <<>>
            /\ ctx[Len(ctx)] = [role |-> "user", content |-> a.user_message]
            /\ last_call.outcome = "returned" =>
                 history[n] = [role |-> "assistant",
                               content |-> last_call.result.response,
                               sentiment |-> <<>>]

\* a negative message answered right after a positive one
C17_Witness ==
    /\ ChatReturned
    /\ Len(sentiment_history) = 2
    /\ sentiment_history[1].sentiment = "positive"
    /\ last_call.args.current_mood = "negative"
    /\ Len(last_call.args.conversation_history) = 4

\* C18: the context handed to the generation collaborator is the last
\* min(10, len(history)) entries of the history as it stood right after the
\* user message was appended, in order and whatever their role: at most 10
\* entries, the last one the current user message, and the system message
\* among them only while that history has at most 10 entries.
C18_ContextWindow ==
    last_call.op = "chat" =>
        LET ctx == last_call.args.conversation_history
            \* the length of the history when the reply was requested
            n == IF last_call.outcome = "returned" THEN Len(history) - 1
                 ELSE Len(history)
            k == IF n < 10 THEN n ELSE 10
        IN  /\ Len(ctx) = k
            /\ Len(ctx) <= 10
            /\ \A i \in 1..k :
                 ctx[i] = [role |-> history[n - k + i].role,
                           content |-> history[n - k + i].content]
            /\ ctx[k] = [role |-> "user", content |-> last_call.args.user_message]
            /\ (\E i \in 1..k : ctx[i].role = "system") <=> n <= 10

\* a reply requested with 12 entries in the history: the window starts at the
\* third entry and holds no system message
C18_Witness ==
    /\ ChatReturned
    /\ Len(history) = 13
    /\ Len(last_call.args.conversation_history) = 10
    /\ last_call.args.conversation_history[1].role = "assistant"
    /\ \A i \in 1..10 : last_call.args.conversation_history[i].role # "system"

\* C20: the read-only calls (get_history, get_user_messages, get_statistics,
\* get_sentiment_history, get_conversation_summary, get_keywords and the
\* analytics and report entry points) leave history, sentiment history,
\* ConversationState, previous_moods and the system prompt as they were, in
\* any state and any order.
C20_ReadOnly ==
    [][ last_call'.op \in ReadOps =>
            /\ history' = history
            /\ sentiment_history' = sentiment_history
            /\ state' = state
            /\ previous_moods' = previous_moods
            /\ system_prompt' = system_prompt ]_vars

\* a summary asked for in the middle of a conversation
C20_Witness ==
    /\ last_call.op = "get_conversation_summary"
    /\ Len(last_call.args) = 3
    /\ Len(history) = 4
    /\ previous_moods # <<>>

\* C13: _calculate_statistics on an empty sentiment history returns exactly
\* total_messages 0, two empty distributions and average_confidence 0.0, and
\* no other field.
C13_EmptyStatistics ==
    (analytics_input = <<>> /\ analytics_output # <<>>) =>
        /\ DOMAIN analytics_output[1] =
              {"total_messages", "sentiment_distribution", "emotion_distribution",
               "average_confidence"}
        /\ analytics_output[1].total_messages = 0
        /\ analytics_output[1].sentiment_distribution = <<>>
        /\ analytics_output[1].emotion_distribution = <<>>
        /\ analytics_output[1].average_confidence.num = 0
        /\ analytics_output[1].average_confidence.den # 0

C13_Witness == analytics_input = <<>> /\ analytics_output # <<>>

\* the label an entry is counted under, its count and its first position
C14_Label(item, field) == IF field \in DOMAIN item THEN item[field] ELSE "neutral"

C14_Count(items, field, label) ==
    Cardinality({i \in 1..Len(items) : C14_Label(items[i], field) = label})

C14_First(items, field, label) ==
    CHOOSE i \in 1..Len(items) :
        /\ C14_Label(items[i], field) = label
        /\ \A j \in 1..(i - 1) : C14_Label(items[j], field) # label

C14_DominantOf(items, field, dist, dominant) ==
    LET labels == { C14_Label(items[i], field) : i \in 1..Len(items) }
    IN  /\ dominant \in labels
        /\ \A k \in 1..Len(dist) :
             /\ dist[k].count = C14_Count(items, field, dist[k].key)
             /\ dist[k].count <= C14_Count(items, field, dominant)
        /\ labels = { dist[k].key : k \in 1..Len(dist) }
        /\ \A l \in labels \ {dominant} :
             C14_Count(items, field, l) = C14_Count(items, field, dominant)
                => C14_First(items, field, dominant) < C14_First(items, field, l)

\* C14: for a non-empty sentiment history, dominant_sentiment and
\* dominant_emotion are labels of maximal count in their distributions, and
\* among the labels tied for the maximum the one that appears first in the
\* history; an entry lacking the field counts as neutral.
C14_Dominant ==
    (analytics_input # <<>> /\ analytics_output # <<>>) =>
        LET out == analytics_output[1]
        IN  /\ C14_DominantOf(analytics_input, "sentiment",
                              out.sentiment_distribution, out.dominant_sentiment)
            /\ C14_DominantOf(analytics_input, "emotion",
                              out.emotion_distribution, out.dominant_emotion)

\* a tie between neutral, counted for an entry without a sentiment, and a
\* later negative entry
C14_Witness ==
    /\ Len(analytics_input) = 2
    /\ analytics_output # <<>>
    /\ "sentiment" \notin DOMAIN analytics_input[1]
    /\ C14_Label(analytics_input[2], "sentiment") = "negative"
    /\ analytics_output[1].dominant_sentiment = "neutral"

\* the collaborator-derived fields of a report and the line each is printed on
C15_ScalarFields ==
    { <<"summary", "summary", "Summary: ">>,
      <<"summary", "overall_tone", "Overall Tone: ">>,
      <<"summary", "user_mood_journey", "Mood Journey: ">>,
      <<"trends", "trend", "Trend: ">>,
      <<"trends", "direction", "Direction: ">>,
      <<"trends", "analysis", "Analysis: ">>,
      <<"trends", "prediction", "Prediction: ">>,
      <<"statistics", "dominant_sentiment", "Dominant Sentiment: ">>,
      <<"statistics", "dominant_emotion", "Dominant Emotion: ">> }

C15_ListFields ==
    { <<"summary", "key_points", "\nKey Points:">>,
      <<"trends", "mood_shifts", "\nMood Shifts:">>,
      <<"keywords", "keywords", "Keywords: ">>,
      <<"keywords", "themes", "Themes: ">>,
      <<"keywords", "topics_of_interest", "Topics of Interest: ">>,
      <<"statistics", "sentiment_distribution", "\nSentiment Distribution:">>,
      <<"statistics", "emotion_distribution", "\nEmotion Distribution:">> }

C15_Absent(report, f) ==
    \/ f[1] \notin DOMAIN report
    \/ f[2] \notin DOMAIN report[f[1]]

C15_Labelled(lines, label) ==
    \E i \in 1..Len(lines) : lines[i][1] = label

C15_HasLine(lines, line) ==
    \E i \in 1..Len(lines) :
        Len(lines[i]) = Len(line) /\ lines[i][1] = line[1] /\ lines[i] = line

\* C15: generate_text_report never raises, and for every field of the report
\* record that is absent the text holds placeholder text for that field: N/A
\* (or the zero of a number) on the field's line, something on a line of its
\* own for a list, the stand-in sentence for the graph and the profile.
C15_PlaceholderForAbsent ==
    analytics_output # <<>> =>
        LET report == analytics_input
            out == analytics_output[1]
        IN  /\ out.outcome = "returned"
            /\ \A f \in C15_ScalarFields :
                 C15_Absent(report, f) => C15_HasLine(out.lines, <<f[3], "N/A">>)
            /\ C15_Absent(report, <<"statistics", "total_messages">>)
                 => C15_HasLine(out.lines, <<"Total Messages Analyzed: ", 0>>)
            /\ C15_Absent(report, <<"statistics", "average_confidence">>)
                 => C15_HasLine(out.lines, <<"Average Confidence: ", 0, "%">>)
            /\ "mood_graph" \notin DOMAIN report
                 => C15_HasLine(out.lines, <<"No visualization available.">>)
            /\ "emotion_profile" \notin DOMAIN report
                 => C15_HasLine(out.lines, <<"No profile available.">>)
            /\ \A f \in C15_ListFields :
                 C15_Absent(report, f) => C15_Labelled(out.lines, f[3])

\* the agent a client's requests read and write, if the registry holds it
C11_AgentOf(instances, heap, cookie) ==
    IF session_id_of(cookie) \in DOMAIN instances
    THEN <<heap[instances[session_id_of(cookie)]]>>
    ELSE <<>>

\* C11: a /chat or /reset request by one client never changes the history,
\* sentiment history, conversation state or mood window of the agent that
\* another client's requests read and write.
C11_NoSharedState ==
    [][ \A d \in Clients :
          (web_last'.client # d /\ web_last'.route \in {"/chat", "/reset"})
             => (C11_AgentOf(chatbot_instances, agents, cookies[d]) # <<>>
                   => C11_AgentOf(chatbot_instances', agents', cookies'[d])
                        = C11_AgentOf(chatbot_instances, agents, cookies[d])) ]_vars

\* C12: two /chat requests of one session never run their pipelines on the
\* agent at once, and every agent's history, after the system message,
\* alternates user, assistant, user, assistant.
C12_Serialized ==
    /\ \A i, j \in 1..Len(requests) :
          (i # j /\ requests[i].pc = "generate" /\ requests[j].pc = "generate")
             => requests[i].instance # requests[j].instance
    /\ \A a \in 1..Len(agents) :
          \A k \in 2..Len(agents[a].history) :
             agents[a].history[k].role = IF k % 2 = 0 THEN "user" ELSE "assistant"

\* a message that is empty or made of whitespace only, or not there
C19_Blank(data) ==
    "message" \notin DOMAIN data
        \/ \A k \in 1..Len(data.message) : data.message[k] \in Whitespace

\* C19: a /chat request whose message is empty or whitespace-only is answered
\* with status 400, creates no agent, and leaves every agent of the registry
\* and every turn in progress as it was.
C19_RejectsBlank ==
    [][ (/\ web_last'.route = "/chat"
         /\ web_last'.request # <<>>
         /\ C19_Blank(web_last'.request[1]))
           => /\ web_last'.status = 400
              /\ chatbot_instances' = chatbot_instances
              /\ agents' = agents
              /\ requests' = requests ]_vars

\* a whitespace-only message rejected while an agent with a turn behind it
\* is registered
C19_Witness ==
    /\ web_last.route = "/chat"
    /\ web_last.status = 400
    /\ web_last.request = <<[message |-> <<" ">>]>>
    /\ \E sid \in DOMAIN chatbot_instances :
          Len(agents[chatbot_instances[sid]].history) = 3

\* C21: get_statistics tallies by role over the history without the system
\* message: total_messages = user_messages + assistant_messages
\* = len(history) - 1 in every state, and user_messages = assistant_messages
\* after every completed turn.
C21_RoleTallies ==
    LET stats == Chatbot_get_statistics(history, state, sentiment_history)
    IN  /\ stats.total_messages = stats.user_messages + stats.assistant_messages
        /\ stats.total_messages = Len(history) - 1
        /\ ChatReturned => stats.user_messages = stats.assistant_messages

\* histories whose first entry is not the system message, the empty one
\* among them
C22_HeadlessHistories ==
    { <<>>,
      << Message("user", <<"h", "i">>, <<DefaultResult>>) >>,
      << Message("assistant", <<"o", "k">>, <<>>),
         Message("system", DefaultPrompt, <<>>) >> }

C23_OneLabelPerTurn ==
    /\ previous_moods = <<>>
    /\ [](/\ Len(previous_moods) >= turns
          /\ calls = chats => Len(previous_moods) = turns)
    /\ [][ previous_moods' =
              IF last_call'.op = "chat" /\ last_call'.outcome = "returned"
              THEN Append(previous_moods, last_call'.analysis[1].sentiment)
              ELSE previous_moods ]_vars

\* a completed turn after a reset: two labels, one turn since the reset
C23_Witness ==
    /\ ChatReturned
    /\ turns = 1
    /\ Len(previous_moods) = 2
    /\ previous_moods[2] = last_call.result.sentiment.sentiment
    /\ previous_moods[1] # previous_moods[2]

C24_Ordinal(label) ==
    IF label = "positive" THEN 1 ELSE IF label = "negative" THEN 0 - 1 ELSE 0

\* the last n of the labels
C24_Window(moods, n) == SubSeq(moods, Len(moods) - n + 1, Len(moods))

\* C24: for every window size N >= 2, _detect_mood_shift reports no shift
\* with fewer than N labels, no shift when the last N labels are identical,
\* no shift when the last two labels have the same ordinal, and the same
\* result for any two label sequences that end in the same N labels.
C24_NoShift ==
    analytics_output # <<>> =>
        LET moods == analytics_input.moods
            n == analytics_input.n
            k == Len(analytics_input.moods)
            shift == analytics_output[1]
        IN  /\ n >= 2
            /\ k < n => shift = <<>>
            /\ (k >= n /\ \A i \in (k - n + 1)..k : moods[i] = moods[k]) => shift = <<>>
            /\ (k >= n /\ C24_Ordinal(moods[k]) = C24_Ordinal(moods[k - 1]))
                  => shift = <<>>
            /\ k >= n =>
                 \A other \in SeqsUpTo(MoodLabels, MaxMoods) :
                    (Len(other) >= n /\ C24_Window(other, n) = C24_Window(moods, n))
                       => detect_mood_shift(other, n) = shift

\* a window of three that is not all one label and ends in two labels of
\* ordinal 0, one of them unknown
C24_Witness ==
    /\ analytics_output = << <<>> >>
    /\ analytics_input.n = 3
    /\ analytics_input.moods = <<"negative", "positive", "neutral", "mixed">>

\* C25: the registry maps each session id to one agent for the life of the
\* process: an entry, once made, is never removed and never names another
\* agent, a handler at work on a session holds the agent the registry names
\* for it, and /reset makes no entry.
C25_RegistryStable ==
    /\ [](\A i \in 1..Len(requests) :
             requests[i].pc = "generate"
                => chatbot_instances[requests[i].session_id] = requests[i].instance)
    /\ [][ /\ \A sid \in DOMAIN chatbot_instances :
                /\ sid \in DOMAIN chatbot_instances'
                /\ chatbot_instances'[sid] = chatbot_instances[sid]
           /\ web_last'.route = "/reset"
                => DOMAIN chatbot_instances' = DOMAIN chatbot_instances ]_vars

\* the line of the report that heads the emotion listing, 0 if there is none
C26_Heading(lines) ==
    IF \E i \in 1..Len(lines) : lines[i][1] = "\nEmotion Distribution:"
    THEN CHOOSE i \in 1..Len(lines) : lines[i][1] = "\nEmotion Distribution:"
    ELSE 0

\* the lines listed under the heading, up to the blank line that ends them
C26_Listed(lines) ==
    LET h == C26_Heading(lines)
        end == CHOOSE j \in (h + 1)..Len(lines) :
                  /\ lines[j] = <<"">>
                  /\ \A k \in (h + 1)..(j - 1) : lines[k] # <<"">>
    IN  IF h = 0 THEN <<>> ELSE SubSeq(lines, h + 1, end - 1)

\* C26: the Emotion Distribution section lists at most 5 labels, all of them
\* when the distribution has 5 or fewer; they are the ones of highest count,
\* in non-increasing order of count, and labels of equal count stand in
\* their insertion order, at the cut after the fifth too.
C26_TopFive ==
    analytics_output # <<>> =>
        LET counts == analytics_input
            n == Len(analytics_input)
            listed == C26_Listed(analytics_output[1].lines)
            m == Len(listed)
            pos(i) == CHOOSE k \in 1..n : Capitalize(EmotionOrder[k]) = listed[i][2]
        IN  /\ m = IF n < 5 THEN n ELSE 5
            /\ \A i \in 1..m :
                 /\ \E k \in 1..n : Capitalize(EmotionOrder[k]) = listed[i][2]
                 /\ listed[i] = <<"  ", Capitalize(EmotionOrder[pos(i)]), ": ",
                                  counts[pos(i)]>>
            /\ \A i, j \in 1..m : i < j =>
                 /\ pos(i) # pos(j)
                 /\ counts[pos(i)] >= counts[pos(j)]
                 /\ counts[pos(i)] = counts[pos(j)] => pos(i) < pos(j)
            /\ \A k \in 1..n : (\A i \in 1..m : pos(i) # k) =>
                 \A i \in 1..m :
                    /\ counts[k] <= counts[pos(i)]
                    /\ counts[k] = counts[pos(i)] => pos(i) < k

\* six emotions, three of them counted twice: the listing holds five, the
\* sixth being the last inserted of those counted once
C26_Witness ==
    /\ analytics_output # <<>>
    /\ analytics_input = <<1, 2, 1, 2, 1, 2>>
    /\ Len(C26_Listed(analytics_output[1].lines)) = 5
    /\ C26_Listed(analytics_output[1].lines)[1] = <<"  ", "Excited", ": ", 2>>
    /\ C26_Listed(analytics_output[1].lines)[5] = <<"  ", "Sad", ": ", 1>>

RECURSIVE C27_Sum(_, _)
C27_Sum(d, n) == IF n = 0 THEN 0 ELSE C27_Sum(d, n - 1) + d[n].count

\* C27: for a non-empty sentiment history, total_messages is the length of
\* the history, the counts of sentiment_distribution and those of
\* emotion_distribution each sum to it, and every count is at least 1.
C27_CountsSum ==
    (analytics_input # <<>> /\ analytics_output # <<>>) =>
        LET out == analytics_output[1]
            sd == out.sentiment_distribution
            ed == out.emotion_distribution
        IN  /\ out.total_messages = Len(analytics_input)
            /\ C27_Sum(sd, Len(sd)) = out.total_messages
            /\ C27_Sum(ed, Len(ed)) = out.total_messages
            /\ \A i \in 1..Len(sd) : sd[i].count >= 1
            /\ \A i \in 1..Len(ed) : ed[i].count >= 1

\* three entries, two of one sentiment: counts 2 and 1
C27_Witness ==
    /\ Len(analytics_input) = 3
    /\ analytics_output # <<>>
    /\ Len(analytics_output[1].sentiment_distribution) = 2
    /\ analytics_output[1].sentiment_distribution[1].count = 2
    /\ Len(analytics_output[1].emotion_distribution) = 3

====
